---- MODULE Spec2Model ----
(***************************************************************************)
(* Model of the forms search-and-pagination controller of                  *)
(* esm-patient-forms-app: FormsDashboard (forms-dashboard.component.tsx)   *)
(* and FormsList (forms-list.component.tsx).                               *)
(*                                                                         *)
(* React state and hook results are the "current" values; `view` is what   *)
(* the last commit rendered.  One Render action is one React commit of the *)
(* dashboard and of every FormsList under it: ref detach, ref attach,      *)
(* effect cleanups, effects, in React's order.  Browser events (sentinel   *)
(* scrolling, IntersectionObserver notifications, timers) and the data     *)
(* source's responses interleave with the commits.                         *)
(***************************************************************************)
EXTENDS Integers, Sequences, FiniteSets, TLC

\* ---------------------------------------------------------------- bounds
MaxForms == 1      \* forms the server can hold for one query
MaxObservers == 2  \* IntersectionObserver objects alive at once
MaxNodes == 2      \* sentinel DOM nodes alive (mounted or still observed)
MaxLists == 2      \* FormsList instances rendered at once (configured sections)
TicksPerWait == 2  \* clock ticks the model splits the debounce wait into
MaxGroupForms == 2 \* result items handed to the section grouping
MaxMatchers == 2   \* entries of one section's forms list
MaxLocalForms == 2 \* result items handed to a FormsList that filters locally

\* ----------------------------------------------------- program constants
\* debounce(..., 500): the wait, in clock ticks
DebounceWait == TicksPerWait

\* ------------------------------------------------------------ data model
\* JavaScript's '' is the empty search term; the others are non-empty terms.
Terms == {"", "a", "b"}
NoTerm == "<none>"

Truthy(term) == term # ""

\* A CompletedFormInfo, reduced to what the controller reads.
FormInfo(k) == [uuid |-> k, name |-> 10 + k]

\* What a hook exposes as `data`: undefined, or an array of CompletedFormInfo.
Undefined == [present |-> FALSE, items |-> << >>]
Loaded(n) == [present |-> TRUE, items |-> [k \in 1..n |-> FormInfo(k)]]
DataValues == {Undefined} \cup {Loaded(n) : n \in 0..MaxForms}

Lists == 1..MaxLists
ObserverIds == 1..MaxObservers
NodeIds == 1..MaxNodes

\* ------------------------------------------------------------- variables
VARIABLES
  \* configuration (useConfig / props), fixed after construction
  useInfiniteScrolling, formSections,
  \* FormsDashboard
  dashMounted, searchQuery, isSearching, dashTimer,
  \* useInfiniteForms / useForms (external hooks)
  infinite, staleRequests, regular,
  \* what the last commit rendered
  view,
  \* FormsList instances (one slot per rendered list)
  listMounted, observerRef, loadMoreRef, hasCleanup,
  \* browser: IntersectionObserver objects and scroll position
  observers, sentinelVisible,
  \* observation of the run (history)
  called, loadInFlight, entryPending, loadFailed,
  lastTyped, superseded, sinceInput, lateCommit,
  \* a FormsList rendered without onSearch: its completedForms prop, its
  \* searchTerm state and the filteredForms it exposes to the table
  localMounted, localForms, searchTerm, exposedForms

configVars == <<useInfiniteScrolling, formSections>>
dashVars == <<dashMounted, searchQuery, isSearching, dashTimer>>
sourceVars == <<infinite, staleRequests, regular>>
listVars == <<listMounted, observerRef, loadMoreRef, hasCleanup>>
browserVars == <<observers, sentinelVisible>>
loadHistory == <<called, loadInFlight, entryPending, loadFailed>>
searchHistory == <<lastTyped, superseded, sinceInput, lateCommit>>

localVars == <<localMounted, localForms, searchTerm, exposedForms>>

vars == <<configVars, dashVars, sourceVars, view, listVars,
          browserVars, loadHistory, searchHistory, localVars>>

\* ------------------------------------------------- hooks and their results
\* useInfiniteForms(..., searchQuery) as of one render: the state the hook
\* exposes for the key it is called with.  Called with a new key, it starts that
\* key's first fetch and exposes nothing of the previous key.
useInfiniteForms(inf, query) ==
  IF inf.key = query THEN inf
  ELSE [key |-> query, data |-> Undefined, error |-> FALSE,
        isValidating |-> TRUE, hasMore |-> FALSE]

\* The previous key's fetch, if still running, goes on in the background.
StaleAfter(inf, query, stale) ==
  IF inf.key = query THEN stale
  ELSE (IF inf.isValidating THEN stale \cup {inf.key} ELSE stale) \ {query}

\* isLoading is "validating with nothing loaded yet".
InfiniteIsLoading(inf) == inf.isValidating /\ ~inf.data.present

\* forms-dashboard.component.tsx 42-51: the hook is called with searchQuery.
infiniteFormsResult(query, inf) ==
  LET h == useInfiniteForms(inf, query)
  IN  [data |-> h.data,
       error |-> h.error,
       isValidating |-> h.isValidating,
       loadMore |-> TRUE,
       hasMore |-> h.hasMore,
       isLoading |-> InfiniteIsLoading(h),
       dataFor |-> h.key]

\* forms-dashboard.component.tsx 54: the unfiltered fetch (the result for '').
regularFormsResult(reg) ==
  [data |-> reg.data,
   error |-> reg.error,
   isValidating |-> reg.isValidating,
   dataFor |-> ""]

\* A selection that looks at the infinite-scrolling flag alone.
selectedResultByScrollingOnly(query, scrolling, inf, reg) ==
  IF scrolling
    THEN inf
    ELSE [data |-> reg.data, error |-> reg.error, isValidating |-> reg.isValidating,
          loadMore |-> FALSE, hasMore |-> FALSE, isLoading |-> FALSE,
          dataFor |-> reg.dataFor]

\* A selection that always reads the incremental fetch.
selectedResultAlwaysInfinite(query, scrolling, inf, reg) == inf

\* forms-dashboard.component.tsx 56-75: the source the dashboard reads from.
selectedResult(query, scrolling, inf, reg) ==
  IF Truthy(query) \/ scrolling
    THEN inf
    ELSE [data |-> reg.data, error |-> reg.error, isValidating |-> reg.isValidating,
          loadMore |-> FALSE, hasMore |-> FALSE, isLoading |-> FALSE,
          dataFor |-> reg.dataFor]

\* A bucket that matches on the form uuid alone.
availableFormsByUuid(forms, formSection) ==
  IF ~forms.present THEN Undefined
  ELSE [present |-> TRUE,
        items |-> SelectSeq(forms.items, LAMBDA formInfo :
                    \E c \in 1..Len(formSection.forms) :
                       formInfo.uuid = formSection.forms[c])]

\* forms-dashboard.component.tsx 124-131: the bucket of one configured section.
availableForms(forms, formSection) ==
  IF ~forms.present THEN Undefined
  ELSE [present |-> TRUE,
        items |-> SelectSeq(forms.items, LAMBDA formInfo :
                    \E c \in 1..Len(formSection.forms) :
                       \/ formInfo.uuid = formSection.forms[c]
                       \/ formInfo.name = formSection.forms[c])]

sections(forms) ==
  [s \in 1..Len(formSections) |->
     [name |-> formSections[s].name,
      forms |-> formSections[s].forms,
      availableForms |-> availableForms(forms, formSections[s])]]

\* forms-dashboard.component.tsx 161-195: one FormsList, or one per section.
NumLists == IF Len(formSections) = 0 THEN 1 ELSE Len(formSections)

completedForms(forms, i) ==
  IF Len(formSections) = 0 THEN forms ELSE sections(forms)[i].availableForms

\* A dashboard that tests for the empty list before it tests isSearching.
DashboardScreenEmptyFirst(searching, r) ==
  IF r.data.present /\ Len(r.data.items) = 0 /\ ~r.isLoading /\ ~r.isValidating
    THEN "empty"
    ELSE IF searching THEN "searching" ELSE "lists"

\* forms-dashboard.component.tsx 133-198: what the dashboard returns.
DashboardScreen(searching, r) ==
  IF searching THEN "searching"
  ELSE IF r.data.present /\ Len(r.data.items) = 0 /\ ~r.isLoading /\ ~r.isValidating
    THEN "empty"
    ELSE "lists"

\* The values useInfiniteForms can expose.
InfiniteValues ==
  [key : Terms, data : DataValues, error : BOOLEAN, isValidating : BOOLEAN,
   hasMore : BOOLEAN]

\* What one commit of the dashboard renders: the FormsList props and the screen.
Props(query, searching, scrolling, inf, reg) ==
  LET r == selectedResult(query, scrolling, infiniteFormsResult(query, inf),
                          regularFormsResult(reg))
  IN  [screen |-> DashboardScreen(searching, r),
       searchQuery |-> query,
       forms |-> r.data,
       dataFor |-> r.dataFor,
       error |-> r.error,
       isValidating |-> r.isValidating,
       loadMore |-> r.loadMore,
       hasMore |-> r.hasMore,
       isLoading |-> r.isLoading,
       enableInfiniteScrolling |-> scrolling,
       isSearching |-> searching]

NoView ==
  [screen |-> "none", searchQuery |-> "", forms |-> Undefined, dataFor |-> "",
   error |-> FALSE, isValidating |-> FALSE, loadMore |-> FALSE, hasMore |-> FALSE,
   isLoading |-> FALSE, enableInfiniteScrolling |-> FALSE, isSearching |-> FALSE]

\* A list that renders nothing once the source has reported an error.
ListBranchBlankOnError(p, forms, term) ==
  IF ~forms.present /\ ~p.error /\ (p.isLoading \/ p.isValidating) THEN "skeleton"
  ELSE IF p.isSearching \/ (Truthy(term) /\ (p.isLoading \/ p.isValidating))
    THEN "searching"
  ELSE IF \/ (~forms.present \/ Len(forms.items) = 0) /\ ~p.isLoading /\ ~p.isValidating
          \/ p.error
    THEN "fragment"
  ELSE "table"

\* forms-list.component.tsx 167-198: the early returns of FormsList.  term is
\* the list's own searchTerm; with onSearch given the rows are completedForms
\* (118-122).
ListBranch(p, forms, term) ==
  IF ~forms.present /\ ~p.error /\ (p.isLoading \/ p.isValidating) THEN "skeleton"
  ELSE IF p.isSearching \/ (Truthy(term) /\ (p.isLoading \/ p.isValidating))
    THEN "searching"
  ELSE IF (~forms.present \/ Len(forms.items) = 0) /\ ~p.isLoading /\ ~p.isValidating
    THEN "fragment"
  ELSE IF /\ Truthy(term)
          /\ (~forms.present \/ Len(forms.items) = 0)
          /\ ~p.isLoading /\ ~p.isValidating /\ ~p.isSearching
    THEN "noSearchResults"
  ELSE "table"

\* forms-list.component.tsx 200-221: the load-more trigger element is rendered.
ShowsSentinel(p, forms, term) ==
  /\ ListBranch(p, forms, term) = "table"
  /\ p.enableInfiniteScrolling
  /\ p.hasMore

\* What list i displays after a commit with props p: the dashboard's branches
\* (forms-dashboard.component.tsx 133-198), then the list's (forms-list
\* 167-253).  Neither component has a branch that renders `error`.
DisplayState(p, i) ==
  IF p.screen = "none" \/ i > NumLists THEN "none"
  ELSE IF p.screen = "searching" THEN "Searching"
  ELSE IF p.screen = "empty" THEN "Empty"
  ELSE LET branch == ListBranch(p, completedForms(p.forms, i), "")
       IN  IF branch = "skeleton" THEN "Loading"
           ELSE IF branch = "searching" THEN "Searching"
           ELSE IF branch = "fragment" THEN "Blank"
           ELSE IF branch = "noSearchResults" THEN "NoSearchResults"
           ELSE "Ready"

\* forms-list.component.tsx 152-165, 200-239: the rows of the table list i
\* displays after a commit with props p, by their ids (form.uuid); with
\* onSearch given, filteredForms is completedForms (118-122).
tableRows(p, i) ==
  IF DisplayState(p, i) = "Ready"
  THEN LET forms == completedForms(p.forms, i)
       IN [k \in 1..Len(forms.items) |-> forms.items[k].uuid]
  ELSE << >>

\* An effect that creates its observer whatever enableInfiniteScrolling is.
TriggerConditionsIgnoringSetting(p) == p.loadMore /\ p.hasMore

\* forms-list.component.tsx 73: the effect's guard.
TriggerConditions(p) == p.enableInfiniteScrolling /\ p.loadMore /\ p.hasMore

\* forms-dashboard.component.tsx 81: the dependency list of the reset effect.
ResetDeps(p) == <<p.isSearching, p.isValidating, p.isLoading>>

\* forms-list.component.tsx 100: the effect's dependency list.
EffectDeps(p) == <<p.enableInfiniteScrolling, p.loadMore, p.hasMore, p.isValidating>>

\* ------------------------------------------- browser: IntersectionObserver
\* An observer holds its targets, what it last reported for each ("none" until
\* its first notification), and the isValidating its callback closed over
\* (forms-list.component.tsx 78-84).  owner = 0 marks an unused slot.
FreeObserver ==
  [owner |-> 0, isValidating |-> FALSE, targets |-> {},
   reported |-> [n \in NodeIds |-> "none"]]

Observe(obs, o, n) ==
  IF n \in obs[o].targets THEN obs
  ELSE [obs EXCEPT ![o].targets = @ \cup {n}, ![o].reported[n] = "none"]

Unobserve(obs, o, n) ==
  [obs EXCEPT ![o].targets = @ \ {n}, ![o].reported[n] = "none"]

Disconnect(obs, o) ==
  [obs EXCEPT ![o].targets = {}, ![o].reported = [n \in NodeIds |-> "none"]]

\* An observer nothing references and that observes nothing is garbage.
Collect(obs, refs) ==
  [o \in ObserverIds |->
     IF obs[o].targets = {} /\ \A i \in Lists : refs[i] # o
       THEN FreeObserver ELSE obs[o]]

\* The slots a new observer of list i can take: an observer that observes
\* nothing and that only list i's observerRef still names is dropped by the
\* assignment of the new one.
FreeObserverIds(st, i) ==
  {o \in ObserverIds : /\ st.observers[o].targets = {}
                        /\ \A j \in Lists \ {i} : st.observerRef[j] # o}

FreeNodeIds(st) ==
  {n \in NodeIds : /\ \A i \in Lists : st.loadMoreRef[i] # n
                   /\ \A o \in ObserverIds : n \notin st.observers[o].targets}

Lowest(S) == CHOOSE x \in S : \A y \in S : x <= y

\* ------------------------------------------------- FormsList: refs, effect
\* The commit state threaded through the lists of one commit; ok turns FALSE
\* when the commit needs more observers or nodes than the bounds allow.
\* forms-list.component.tsx 103-116
setLoadMoreRef(st, i, node) ==
  LET s1 == IF st.loadMoreRef[i] # 0 /\ st.observerRef[i] # 0
              THEN [st EXCEPT !.observers =
                      Unobserve(@, st.observerRef[i], st.loadMoreRef[i])]
              ELSE st
      s2 == [s1 EXCEPT !.loadMoreRef[i] = node]
  IN  IF node # 0 /\ s2.observerRef[i] # 0
        THEN [s2 EXCEPT !.observers = Observe(@, s2.observerRef[i], node)]
        ELSE s2

\* forms-list.component.tsx 95-99: the cleanup the effect returned.
EffectCleanup(st, i) ==
  IF st.hasCleanup[i] /\ st.observerRef[i] # 0
    THEN [st EXCEPT !.observers = Disconnect(@, st.observerRef[i]),
                    !.hasCleanup[i] = FALSE]
    ELSE [st EXCEPT !.hasCleanup[i] = FALSE]

\* forms-list.component.tsx 72-94: the effect body.
ObserverEffect(st, i, p) ==
  IF ~TriggerConditions(p) THEN st
  ELSE IF FreeObserverIds(st, i) = {} THEN [st EXCEPT !.ok = FALSE]
  ELSE
    LET o == Lowest(FreeObserverIds(st, i))
        created == [st EXCEPT
                      !.observers[o] = [FreeObserver EXCEPT
                                          !.owner = i,
                                          !.isValidating = p.isValidating],
                      !.observerRef[i] = o,
                      !.hasCleanup[i] = TRUE]
    IN  IF created.loadMoreRef[i] # 0
          THEN [created EXCEPT !.observers = Observe(@, o, created.loadMoreRef[i])]
          ELSE created

\* One list in one commit, in React's order: refs of removed elements are
\* called with null, refs of new elements with the node, then the passive
\* effects (cleanup of the previous run, then the new run) when the
\* dependencies changed.  An unmounted instance loses its refs and state.
CommitList(st, i, mountedBefore, before, p, shown) ==
  LET forms == completedForms(p.forms, i)
      sentinelNow == shown /\ ShowsSentinel(p, forms, "")
      detached == IF st.loadMoreRef[i] # 0 /\ ~sentinelNow
                    THEN setLoadMoreRef(st, i, 0) ELSE st
      attached == IF detached.loadMoreRef[i] = 0 /\ sentinelNow
                    THEN IF FreeNodeIds(detached) = {}
                           THEN [detached EXCEPT !.ok = FALSE]
                           ELSE setLoadMoreRef(detached, i, Lowest(FreeNodeIds(detached)))
                    ELSE detached
  IN  IF ~shown
        THEN [EffectCleanup(attached, i) EXCEPT
                !.observerRef[i] = 0, !.loadMoreRef[i] = 0]
        ELSE IF mountedBefore /\ EffectDeps(before) = EffectDeps(p)
          THEN attached
          ELSE ObserverEffect(EffectCleanup(attached, i), i, p)

RECURSIVE CommitLists(_, _, _, _, _, _)
CommitLists(st, i, mountedBefore, before, p, shown) ==
  IF i > MaxLists THEN st
  ELSE CommitLists(
         CommitList(st, i, mountedBefore[i], before, p, shown /\ i <= NumLists),
         i + 1, mountedBefore, before, p, shown)

\* ------------------------------------------------------ lodash debounce
\* A debounced function: the arguments of its last call and the ticks left
\* until the trailing edge invokes the wrapped function with them.
IdleTimer == [pending |-> NoTerm, remaining |-> 0]

\* A debounce that keeps the deadline of the first call of a burst.
DebounceCallKeepsDeadline(timer, term) ==
  [pending |-> term,
   remaining |-> IF timer.pending = NoTerm THEN DebounceWait ELSE timer.remaining]

\* Calling the debounced function (re)starts the wait with the new argument.
DebounceCall(timer, term) == [pending |-> term, remaining |-> DebounceWait]

\* One tick of a pending timer; it is due when no tick is left.
DebounceTick(timer) == [timer EXCEPT !.remaining = @ - 1]
DebounceDue(timer) == timer.pending # NoTerm /\ timer.remaining = 0

\* ------------------------------------------------------------------ Init
SectionConfig ==
  [s \in 1..MaxLists |->
     [name |-> s,
      forms |-> << IF s % 2 = 1 THEN FormInfo(s).uuid ELSE FormInfo(s).name >>]]

InitialFetch == [data |-> Undefined, error |-> FALSE, isValidating |-> TRUE]

InitCommon ==
  /\ dashMounted = TRUE
  /\ searchQuery = ""
  /\ isSearching = FALSE
  /\ dashTimer = IdleTimer
  /\ infinite = [key |-> "", data |-> Undefined, error |-> FALSE,
                 isValidating |-> TRUE, hasMore |-> FALSE]
  /\ staleRequests = {}
  /\ regular = InitialFetch
  /\ view = NoView
  /\ listMounted = [i \in Lists |-> FALSE]
  /\ observerRef = [i \in Lists |-> 0]
  /\ loadMoreRef = [i \in Lists |-> 0]
  /\ hasCleanup = [i \in Lists |-> FALSE]
  /\ observers = [o \in ObserverIds |-> FreeObserver]
  /\ sentinelVisible = [i \in Lists |-> FALSE]
  /\ called = 0
  /\ loadInFlight = FALSE
  /\ entryPending = [i \in Lists |-> FALSE]
  /\ loadFailed = FALSE
  /\ lastTyped = NoTerm
  /\ superseded = NoTerm
  /\ sinceInput = 0
  /\ lateCommit = FALSE

\* No FormsList is rendered without onSearch.
InitNoLocal ==
  /\ localMounted = FALSE
  /\ localForms = Undefined
  /\ searchTerm = << >>
  /\ exposedForms = Undefined

\* --------------------------------------------------------------- actions
\* One React commit of the dashboard and its lists.
Render ==
  /\ dashMounted
  /\ LET p == Props(searchQuery, isSearching, useInfiniteScrolling, infinite, regular)
         st == CommitLists([observers |-> observers, observerRef |-> observerRef,
                            loadMoreRef |-> loadMoreRef, hasCleanup |-> hasCleanup,
                            ok |-> TRUE],
                           1, listMounted, view, p, p.screen = "lists")
     IN  /\ p # view
         /\ st.ok
         /\ view' = p
         /\ infinite' = useInfiniteForms(infinite, searchQuery)
         /\ staleRequests' = StaleAfter(infinite, searchQuery, staleRequests)
         \* forms-dashboard.component.tsx 77-82: the effect runs on mount and
         \* when one of its dependencies differs from the previous commit's
         /\ isSearching' = IF /\ (view.screen = "none" \/ ResetDeps(view) # ResetDeps(p))
                                /\ isSearching /\ ~p.isValidating /\ ~p.isLoading
                             THEN FALSE ELSE isSearching
         /\ listMounted' = [i \in Lists |-> p.screen = "lists" /\ i <= NumLists]
         /\ observerRef' = st.observerRef
         /\ loadMoreRef' = st.loadMoreRef
         /\ hasCleanup' = st.hasCleanup
         /\ observers' = Collect(st.observers, st.observerRef)
         \* a sentinel that has just been mounted is in view or not
         /\ \E vis \in [Lists -> BOOLEAN] :
              /\ sentinelVisible' =
                   [i \in Lists |->
                      IF st.loadMoreRef[i] = 0 THEN FALSE
                      ELSE IF st.loadMoreRef[i] = loadMoreRef[i] THEN sentinelVisible[i]
                      ELSE vis[i]]
              /\ \A i \in Lists :
                   (st.loadMoreRef[i] = 0 \/ st.loadMoreRef[i] = loadMoreRef[i])
                      => ~vis[i]
              /\ entryPending' =
                   [i \in Lists |->
                      IF st.loadMoreRef[i] = 0 THEN FALSE
                      ELSE IF st.loadMoreRef[i] = loadMoreRef[i] THEN entryPending[i]
                      ELSE vis[i]]
  /\ called' = 0
  /\ UNCHANGED <<localVars, configVars, dashMounted, searchQuery, dashTimer, regular,
                 loadInFlight, loadFailed, searchHistory>>

\* The user scrolls the sentinel of list i into view / out of view.
SentinelEnter(i) ==
  /\ loadMoreRef[i] # 0
  /\ ~sentinelVisible[i]
  /\ sentinelVisible' = [sentinelVisible EXCEPT ![i] = TRUE]
  /\ entryPending' = [entryPending EXCEPT ![i] = TRUE]
  /\ loadFailed' = FALSE
  /\ called' = 0
  /\ UNCHANGED <<localVars, configVars, dashVars, sourceVars, view, listVars,
                 observers, loadInFlight, searchHistory>>

SentinelLeave(i) ==
  /\ loadMoreRef[i] # 0
  /\ sentinelVisible[i]
  /\ sentinelVisible' = [sentinelVisible EXCEPT ![i] = FALSE]
  /\ entryPending' = [entryPending EXCEPT ![i] = FALSE]
  /\ called' = 0
  /\ UNCHANGED <<localVars, configVars, dashVars, sourceVars, view, listVars,
                 observers, loadInFlight, loadFailed, searchHistory>>

\* A node intersects the viewport when it is a mounted sentinel in view; a
\* node removed from the document never does.
IsIntersecting(n) == \E i \in Lists : loadMoreRef[i] = n /\ sentinelVisible[i]

Intersection(n) == IF IsIntersecting(n) THEN "in" ELSE "out"

\* useInfiniteForms' loadMore(): the next page is requested.
loadMore(inf) == [inf EXCEPT !.isValidating = TRUE]

\* forms-list.component.tsx 78-84: the browser notifies observer o about its
\* target n (the first notification after observe() always comes).
IONotify(o, n) ==
  /\ observers[o].owner # 0
  /\ n \in observers[o].targets
  /\ observers[o].reported[n] # Intersection(n)
  /\ observers' = [observers EXCEPT ![o].reported[n] = Intersection(n)]
  /\ IF IsIntersecting(n) /\ ~observers[o].isValidating
       THEN /\ infinite' = loadMore(infinite)
            /\ called' = observers[o].owner
            /\ loadInFlight' = TRUE
            /\ entryPending' = [entryPending EXCEPT ![observers[o].owner] = FALSE]
       ELSE /\ called' = 0
            /\ UNCHANGED <<infinite, loadInFlight, entryPending>>
  /\ UNCHANGED <<localVars, configVars, dashVars, staleRequests, regular, view, listVars,
                 sentinelVisible, loadFailed, searchHistory>>

\* ------------------------------------------------------- the data sources
\* The hooks live in the dashboard: their state is followed while it is mounted.
\* A fetch of the infinite source's current key ends: with a page list and a
\* hasMore flag, or with an error that leaves what was loaded in place.
InfiniteRespond ==
  /\ dashMounted
  /\ infinite.isValidating
  /\ \/ \E n \in 0..MaxForms, more \in BOOLEAN :
          /\ more => n >= 1
          /\ infinite' = [infinite EXCEPT !.data = Loaded(n), !.hasMore = more,
                                          !.error = FALSE, !.isValidating = FALSE]
          /\ loadFailed' = FALSE
     \/ /\ infinite' = [infinite EXCEPT !.error = TRUE, !.isValidating = FALSE]
        /\ loadFailed' = loadInFlight
  /\ loadInFlight' = FALSE
  /\ called' = 0
  /\ UNCHANGED <<localVars, configVars, dashVars, staleRequests, regular, view, listVars,
                 browserVars, entryPending, searchHistory>>

\* The source revalidates (mutateForms after a form was filled in, focus, its
\* own retry): the caller's reset of the source.
InfiniteRevalidate ==
  /\ dashMounted
  /\ ~infinite.isValidating
  /\ infinite' = [infinite EXCEPT !.isValidating = TRUE]
  /\ loadFailed' = FALSE
  /\ called' = 0
  /\ UNCHANGED <<localVars, configVars, dashVars, staleRequests, regular, view, listVars,
                 browserVars, loadInFlight, entryPending, searchHistory>>

\* The response for a key the hook is no longer called with arrives: it goes
\* to that key's cache entry; nothing the hook exposes changes.
StaleRespond(t) ==
  /\ dashMounted
  /\ t \in staleRequests
  /\ staleRequests' = staleRequests \ {t}
  /\ called' = 0
  /\ UNCHANGED <<localVars, configVars, dashVars, infinite, regular, view, listVars,
                 browserVars, loadInFlight, entryPending, loadFailed,
                 searchHistory>>

RegularRespond ==
  /\ dashMounted
  /\ regular.isValidating
  /\ \/ \E n \in 0..MaxForms :
          regular' = [data |-> Loaded(n), error |-> FALSE, isValidating |-> FALSE]
     \/ regular' = [regular EXCEPT !.error = TRUE, !.isValidating = FALSE]
  /\ called' = 0
  /\ UNCHANGED <<localVars, configVars, dashVars, infinite, staleRequests, view, listVars,
                 browserVars, loadInFlight, entryPending, loadFailed,
                 searchHistory>>

RegularRevalidate ==
  /\ dashMounted
  /\ ~regular.isValidating
  /\ regular' = [regular EXCEPT !.isValidating = TRUE]
  /\ called' = 0
  /\ UNCHANGED <<localVars, configVars, dashVars, infinite, staleRequests, view, listVars,
                 browserVars, loadInFlight, entryPending, loadFailed,
                 searchHistory>>

\* ------------------------------------------------------ search, dashboard
\* The search box lives in the FormsTable of a list that renders its table.
SearchBoxShown ==
  \E i \in Lists :
     /\ listMounted[i]
     /\ ListBranch(view, completedForms(view.forms, i), "") = "table"

\* forms-list.component.tsx 206: FormsTable's handleSearch is onSearch, the
\* dashboard's debounced handleSearch (forms-dashboard.component.tsx 117-122).
Type(term) ==
  /\ dashMounted
  /\ SearchBoxShown
  /\ dashTimer' = DebounceCall(dashTimer, term)
  /\ lastTyped' = term
  /\ superseded' = dashTimer.pending
  /\ sinceInput' = 0
  /\ called' = 0
  /\ UNCHANGED <<localVars, configVars, dashMounted, searchQuery, isSearching, sourceVars,
                 view, listVars, browserVars, loadInFlight,
                 entryPending, loadFailed, lateCommit>>

\* One clock tick passes while the dashboard's timer is pending; a due timer
\* invokes the debounced function: setIsSearching(true); setSearchQuery(query)
\* (forms-dashboard.component.tsx 118-121).  Nothing cancels the timer when the
\* dashboard unmounts; React drops the state updates of an unmounted component.
Tick ==
  /\ dashTimer.pending # NoTerm
  /\ LET t == DebounceTick(dashTimer)
     IN  IF DebounceDue(t)
           THEN /\ dashTimer' = IdleTimer
                /\ lastTyped' = NoTerm
                /\ sinceInput' = 0
                /\ IF dashMounted
                     THEN /\ isSearching' = TRUE
                          /\ searchQuery' = t.pending
                          /\ UNCHANGED lateCommit
                     ELSE /\ lateCommit' = TRUE
                          /\ UNCHANGED <<isSearching, searchQuery>>
           ELSE /\ dashTimer' = t
                /\ sinceInput' = sinceInput + 1
                /\ UNCHANGED <<lastTyped, isSearching, searchQuery, lateCommit>>
  /\ called' = 0
  /\ UNCHANGED <<localVars, configVars, dashMounted, sourceVars, view, listVars,
                 browserVars, loadInFlight, entryPending, loadFailed, superseded>>

\* The workspace closes: the dashboard and its lists unmount.
DashUnmount ==
  /\ dashMounted
  /\ dashMounted' = FALSE
  /\ LET st == CommitLists([observers |-> observers, observerRef |-> observerRef,
                            loadMoreRef |-> loadMoreRef, hasCleanup |-> hasCleanup,
                            ok |-> TRUE],
                           1, listMounted, view, view, FALSE)
     IN  /\ observerRef' = st.observerRef
         /\ loadMoreRef' = st.loadMoreRef
         /\ hasCleanup' = st.hasCleanup
         /\ observers' = Collect(st.observers, st.observerRef)
  /\ listMounted' = [i \in Lists |-> FALSE]
  /\ sentinelVisible' = [i \in Lists |-> FALSE]
  /\ entryPending' = [i \in Lists |-> FALSE]
  /\ view' = NoView
  /\ called' = 0
  /\ UNCHANGED <<localVars, configVars, searchQuery, isSearching, dashTimer, sourceVars,
                 loadInFlight, loadFailed, searchHistory>>

\* --------------------------------------------------------- specifications
\* The whole system: every configuration, every event.
Init ==
  /\ InitCommon
  /\ InitNoLocal
  /\ useInfiniteScrolling \in BOOLEAN
  /\ formSections \in {<< >>, SectionConfig}

Next ==
  \/ Render
  \/ \E i \in Lists : SentinelEnter(i)
  \/ \E i \in Lists : SentinelLeave(i)
  \/ \E o \in ObserverIds, n \in NodeIds : IONotify(o, n)
  \/ InfiniteRespond
  \/ InfiniteRevalidate
  \/ \E t \in Terms : StaleRespond(t)
  \/ RegularRespond
  \/ RegularRevalidate
  \/ \E term \in Terms : Type(term)
  \/ Tick
  \/ DashUnmount

Spec == Init /\ [][Next]_vars

\* The specifications below are Spec with the configuration fixed and with
\* part of the environment quiet; each of their behaviours is one of Spec.

\* Infinite scrolling enabled, no sections, a user who scrolls and does not
\* search: the load trigger of the single list.
InitScroll ==
  /\ InitCommon
  /\ InitNoLocal
  /\ useInfiniteScrolling = TRUE
  /\ formSections = << >>

NextScroll ==
  \/ Render
  \/ \E i \in Lists : SentinelEnter(i)
  \/ \E i \in Lists : SentinelLeave(i)
  \/ \E o \in ObserverIds, n \in NodeIds : IONotify(o, n)
  \/ InfiniteRespond
  \/ InfiniteRevalidate
  \/ DashUnmount

SpecScroll == InitScroll /\ [][NextScroll]_vars

\* Infinite scrolling enabled with one list per configured section.
InitSections ==
  /\ InitCommon
  /\ InitNoLocal
  /\ useInfiniteScrolling = TRUE
  /\ formSections = SectionConfig

SpecSections == InitSections /\ [][NextScroll]_vars

\* A user who searches and does not scroll, with and without infinite
\* scrolling; the sources fetch on mount and on every new key and do not
\* revalidate on their own.
InitSearch ==
  /\ InitCommon
  /\ InitNoLocal
  /\ useInfiniteScrolling \in BOOLEAN
  /\ formSections = << >>

NextSearch ==
  \/ Render
  \/ InfiniteRespond
  \/ \E t \in Terms : StaleRespond(t)
  \/ RegularRespond
  \/ \E term \in Terms : Type(term)
  \/ Tick
  \/ DashUnmount

SpecSearch == InitSearch /\ [][NextSearch]_vars

\* Every event of a dashboard without sections, with and without infinite
\* scrolling: the user scrolls down to the end of the list in either
\* configuration and searches in the one without infinite scrolling.
SearchWithoutScrolling(term) ==
  /\ ~useInfiniteScrolling
  /\ Type(term)

NextPlain ==
  \/ Render
  \/ \E i \in Lists : SentinelEnter(i)
  \/ \E o \in ObserverIds, n \in NodeIds : IONotify(o, n)
  \/ InfiniteRespond
  \/ RegularRespond
  \/ \E term \in Terms : SearchWithoutScrolling(term)
  \/ Tick
  \/ DashUnmount

SpecPlain == InitSearch /\ [][NextPlain]_vars

\* The section grouping as a function of its inputs: the configured sections
\* with any forms list over the identifiers and names of the forms in one of
\* them, and any result set fetched by useForms.
SeqsUpTo(S, n) == UNION {[1..m -> S] : m \in 0..n}

GroupForms == {FormInfo(k) : k \in 1..MaxGroupForms}
GroupMatchers == {f.uuid : f \in GroupForms} \cup {f.name : f \in GroupForms}
GroupConfigs ==
  {[SectionConfig EXCEPT ![s].forms = m] :
     s \in 1..MaxLists, m \in SeqsUpTo(GroupMatchers, MaxMatchers)}
GroupResults == {[present |-> TRUE, items |-> items] :
                   items \in SeqsUpTo(GroupForms, MaxGroupForms)}

InitGroup ==
  /\ InitCommon
  /\ InitNoLocal
  /\ useInfiniteScrolling = FALSE
  /\ formSections \in GroupConfigs

\* useForms' fetch ends with one of the result sets.
GroupRespond ==
  /\ dashMounted
  /\ regular.isValidating
  /\ \E r \in GroupResults :
        regular' = [data |-> r, error |-> FALSE, isValidating |-> FALSE]
  /\ called' = 0
  /\ UNCHANGED <<localVars, configVars, dashVars, infinite, staleRequests, view, listVars,
                 browserVars, loadInFlight, entryPending, loadFailed,
                 searchHistory>>

NextGroup ==
  \/ Render
  \/ GroupRespond
  \/ DashUnmount

SpecGroup == InitGroup /\ [][NextGroup]_vars

\* ------------------------------------- FormsList filtering on the client
\* Form names and search terms are sequences of characters.
toLowerCase(str) ==
  [k \in 1..Len(str) |-> IF str[k] = "A" THEN "a"
                         ELSE IF str[k] = "B" THEN "b" ELSE str[k]]

\* A CompletedFormInfo whose form has no display (null or undefined) ...
Named(name) == [name |-> name, hasDisplay |-> FALSE, display |-> << >>]
\* ... and one whose form has a display, which may be the empty string.
Displayed(display, name) ==
  [name |-> name, hasDisplay |-> TRUE, display |-> display]

LocalForms ==
  {Named(<<"a", "b">>), Named(<<"a", "a", "b">>), Named(<<"a", "b", "b">>),
   Named(<<"b", "a">>), Named(<<"A", "b">>),
   Displayed(<<"a", "b">>, <<"b", "a">>), Displayed(<< >>, <<"a", "b">>)}
LocalTerms == {<< >>, <<"a">>, <<"a", "b">>, <<"A", "B">>}

\* completedForms as the parent can pass it: undefined, or an array; the uuid
\* of an item is its position in the array.
LocalResults ==
  {Undefined} \cup
  {[present |-> TRUE,
    items |-> [k \in 1..n |-> [uuid |-> k, name |-> fs[k].name,
                                hasDisplay |-> fs[k].hasDisplay,
                                display |-> fs[k].display]]] :
     n \in 0..MaxLocalForms, fs \in [1..MaxLocalForms -> LocalForms]}

\* The library's score of an exact match is Infinity: a number above every
\* score the scan can total over a string of the model (below 2^(length+1)).
Infinity == 2 ^ 4
NoMatch == 0 - 1

\* fuzzy.match's scan of str from position idx (positions count from 1).
RECURSIVE matchScan(_, _, _, _, _, _)
matchScan(pattern, str, idx, patternIdx, currScore, totalScore) ==
  IF idx > Len(str)
  THEN [patternIdx |-> patternIdx, totalScore |-> totalScore]
  ELSE IF patternIdx <= Len(pattern) /\ str[idx] = pattern[patternIdx]
  THEN matchScan(pattern, str, idx + 1, patternIdx + 1,
                 1 + currScore + currScore,
                 totalScore + 1 + currScore + currScore)
  ELSE matchScan(pattern, str, idx + 1, patternIdx, 0, totalScore)

\* fuzzy.match(pattern, str).score, or NoMatch where it returns null.
fuzzy_match(pattern, str) ==
  LET compareString == toLowerCase(str)
      lowered == toLowerCase(pattern)
      scan == matchScan(lowered, compareString, 1, 1, 0, 0)
  IN IF scan.patternIdx = Len(lowered) + 1
     THEN IF compareString = lowered THEN Infinity ELSE scan.totalScore
     ELSE NoMatch

\* The comparators of the two sorts: fuzzy.filter's own (score, then index)
\* and forms-list.component.tsx 135 (score alone).
compare(a, b, thenByIndex) ==
  IF b.score - a.score # 0 THEN b.score - a.score
  ELSE IF thenByIndex THEN a.index - b.index ELSE 0

\* Array.prototype.sort: stable; a stays before b unless compare(a, b) > 0.
sort(arr, thenByIndex) ==
  LET insert(sorted, x) ==
        LET k == Cardinality({j \in 1..Len(sorted) :
                                compare(sorted[j], x, thenByIndex) <= 0})
        IN SubSeq(sorted, 1, k) \o <<x>> \o SubSeq(sorted, k + 1, Len(sorted))
      upTo[n \in 0..Len(arr)] ==
        IF n = 0 THEN << >> ELSE insert(upTo[n - 1], arr[n])
  IN upTo[Len(arr)]

extractName(formInfo) == formInfo.name
\* forms-list.component.tsx 134: formInfo.form.display ?? formInfo.form.name
extract(formInfo) ==
  IF formInfo.hasDisplay THEN formInfo.display ELSE formInfo.name

\* fuzzy.filter(pattern, arr, {extract}): the matches, best score first and
\* by index among equal scores.
fuzzy_filter(pattern, arr) ==
  LET reduce[n \in 0..Len(arr)] ==
        IF n = 0 THEN << >>
        ELSE LET score == fuzzy_match(pattern, extract(arr[n]))
             IN IF score # NoMatch
                THEN Append(reduce[n - 1],
                            [score |-> score, index |-> n, original |-> arr[n]])
                ELSE reduce[n - 1]
  IN IF Len(arr) = 0 THEN << >> ELSE sort(reduce[Len(arr)], TRUE)

\* forms-list.component.tsx 118-137
filteredForms(onSearch, term, forms) ==
  IF onSearch /\ term # << >> THEN forms
  ELSE IF term = << >> THEN forms
  ELSE IF ~forms.present \/ Len(forms.items) = 0
  THEN [present |-> TRUE, items |-> << >>]
  ELSE LET results == sort(fuzzy_filter(term, forms.items), FALSE)
       IN [present |-> TRUE,
           items |-> [k \in 1..Len(results) |-> results[k].original]]

\* What a FormsList without onSearch and without loading flags renders
\* (forms-list.component.tsx 167-253).
LocalBranch ==
  IF ~localMounted THEN "none"
  ELSE IF ~localForms.present \/ Len(localForms.items) = 0 THEN "fragment"
  ELSE IF searchTerm # << >> /\ Len(exposedForms.items) = 0
  THEN "noSearchResults"
  ELSE "table"

\* A FormsList is rendered with some completedForms and no onSearch.
InitLocal ==
  /\ InitCommon
  /\ useInfiniteScrolling = FALSE
  /\ formSections = << >>
  /\ localMounted = TRUE
  /\ localForms \in LocalResults
  /\ searchTerm = << >>
  /\ exposedForms = filteredForms(FALSE, searchTerm, localForms)

\* The parent renders the list again with another completedForms.
LocalReceive(forms) ==
  /\ localMounted
  /\ forms # localForms
  /\ localForms' = forms
  /\ exposedForms' = filteredForms(FALSE, searchTerm, forms)
  /\ UNCHANGED <<localMounted, searchTerm, configVars, dashVars, sourceVars,
                 view, listVars, browserVars, loadHistory, searchHistory>>

\* The debounced handleSearch of the table's search box fires with term:
\* setSearchTerm(term), then the render that follows.
LocalCommit(term) ==
  /\ LocalBranch = "table"
  /\ searchTerm' = term
  /\ exposedForms' = filteredForms(FALSE, term, localForms)
  /\ UNCHANGED <<localMounted, localForms, configVars, dashVars, sourceVars,
                 view, listVars, browserVars, loadHistory, searchHistory>>

NextLocal ==
  \/ \E forms \in LocalResults : LocalReceive(forms)
  \/ \E term \in LocalTerms : LocalCommit(term)

SpecLocal == InitLocal /\ [][NextLocal]_vars

\* ------------------------------------------------------------------ claims
\* The list whose trigger invoked loadMore() in the step just taken is `called`.

\* C1: between a loadMore() invocation and the moment the source's in-flight
\* flag clears again, the load trigger never invokes loadMore() a second time.
C1_NoSecondLoadWhileInFlight == [][called' # 0 => ~loadInFlight]_vars

\* C3: every loadMore() call answers an entering transition of the sentinel
\* that no earlier call has answered: one call per transition, and none merely
\* because the observer was rebuilt or re-attached while the sentinel stays
\* in view.
C3_OneLoadPerEnteringTransition ==
  [][called' # 0 => entryPending[called']]_vars

\* The observers list i created that observe something.
ObserversOf(i) == {o \in ObserverIds : observers[o].owner = i /\ observers[o].targets # {}}

\* C4: at most one observer of a FormsList observes its sentinel, and no
\* earlier observer of the list is left observing anything.
C4_AtMostOneObserver ==
  \A i \in Lists :
     /\ Cardinality(ObserversOf(i)) <= 1
     /\ ObserversOf(i) \subseteq {observerRef[i]}

\* C5: in every state in which the rendered hasMore is false, no observer of
\* the FormsList observes any element.
C5_NoObserverWithoutHasMore ==
  \A i \in Lists : (listMounted[i] /\ ~view.hasMore) => ObserversOf(i) = {}

\* C7: after a FormsList is unmounted, or after its trigger conditions stop all
\* being true, every observer it created is disconnected and no visibility
\* event causes a loadMore() call.
C7_DisconnectedAfterTeardown ==
  /\ [](\A i \in Lists :
          (~listMounted[i] \/ ~TriggerConditions(view)) => ObserversOf(i) = {})
  /\ [][called' # 0 => (listMounted[called'] /\ TriggerConditions(view))]_vars

\* C9: with sections configured and infinite scrolling enabled, at most one of
\* the rendered lists owns an active load trigger.
C9_OneTriggerAcrossSections ==
  Cardinality({i \in Lists : ObserversOf(i) # {}}) <= 1

\* C10: after a load-more request failed, the trigger issues no loadMore()
\* until the sentinel enters the viewport anew or the source is reset.
C10_NoRetryAfterFailure == [][called' # 0 => ~loadFailed]_vars

\* The step in which the dashboard's debounce timer fires.
CommitStep == dashTimer.pending # NoTerm /\ dashTimer'.pending = NoTerm

C6_NoCommitAfterTeardown == ~lateCommit

C11_FetchFailureShowsErrorState ==
  \A i \in Lists :
     (/\ listMounted[i]
      /\ view.error /\ ~view.forms.present
      /\ ~view.isLoading /\ ~view.isValidating /\ ~view.isSearching)
       => DisplayState(view, i) = "ErrorState"

\* The positions of the result items a section's forms list names, by uuid
\* or by name.
MatchingPositions(items, matchers) ==
  {k \in 1..Len(items) :
     \E c \in 1..Len(matchers) : matchers[c] \in {items[k].uuid, items[k].name}}

\* bucket is items restricted to the positions P, in the order of items.
IsRestriction(bucket, items, P) ==
  /\ Len(bucket) = Cardinality(P)
  /\ \A k \in P : bucket[Cardinality({m \in P : m <= k})] = items[k]

\* C12: the bucket of every section holds exactly the result items whose uuid
\* or name is in the section's forms list, in the result set's order; an item
\* of several sections is in each of their buckets, an item of none in none.
C12_SectionBuckets ==
  view.forms.present =>
    \A s \in 1..Len(formSections) :
       LET bucket == sections(view.forms)[s].availableForms
       IN  /\ bucket.present
           /\ IsRestriction(bucket.items, view.forms.items,
                            MatchingPositions(view.forms.items, formSections[s].forms))

\* One rendered item is in the buckets of two sections, another in none.
C12_Witness ==
  /\ view.forms.present
  /\ Len(formSections) >= 2
  /\ \E k \in 1..Len(view.forms.items) :
        Cardinality({s \in 1..Len(formSections) :
           \E j \in 1..Len(sections(view.forms)[s].availableForms.items) :
              sections(view.forms)[s].availableForms.items[j] = view.forms.items[k]}) >= 2
  /\ \E k \in 1..Len(view.forms.items) :
        \A s \in 1..Len(formSections) :
           \A j \in 1..Len(sections(view.forms)[s].availableForms.items) :
              sections(view.forms)[s].availableForms.items[j] # view.forms.items[k]

\* C13: the dashboard shows the empty state exactly when the selected
\* source's form list is present and empty and the dashboard is not searching,
\* not loading and not validating, with infinite scrolling disabled or enabled.
C13_EmptyStateExactly ==
  view.screen # "none" =>
    (view.screen = "empty" <=>
       /\ view.forms.present /\ Len(view.forms.items) = 0
       /\ ~view.isSearching /\ ~view.isLoading /\ ~view.isValidating)

\* The empty state is displayed with infinite scrolling enabled, after a
\* search that found nothing.
C13_Witness ==
  /\ view.screen = "empty"
  /\ view.enableInfiniteScrolling
  /\ Truthy(view.searchQuery)

\* C14: while the committed term is empty and infinite scrolling is disabled,
\* what the dashboard renders is the same whatever the incremental fetch
\* exposes: it is the regular fetch's result with loadMore absent, hasMore
\* false and isLoading false; in every other state it is the incremental
\* fetch's result.
C14_SourceSelection ==
  LET p == Props(searchQuery, isSearching, useInfiniteScrolling, infinite, regular)
      h == useInfiniteForms(infinite, searchQuery)
  IN  IF ~Truthy(searchQuery) /\ ~useInfiniteScrolling
        THEN /\ \A inf \in InfiniteValues :
                  Props(searchQuery, isSearching, useInfiniteScrolling, inf, regular) = p
             /\ p.forms = regular.data /\ p.error = regular.error
             /\ p.isValidating = regular.isValidating
             /\ ~p.loadMore /\ ~p.hasMore /\ ~p.isLoading
        ELSE /\ p.forms = h.data /\ p.error = h.error
             /\ p.isValidating = h.isValidating
             /\ p.loadMore /\ p.hasMore = h.hasMore
             /\ p.isLoading = InfiniteIsLoading(h)

\* With the empty term committed and infinite scrolling disabled, the regular
\* fetch's forms are displayed as loaded while the incremental fetch is still
\* loading.
C14_Witness ==
  /\ ~useInfiniteScrolling /\ ~Truthy(searchQuery)
  /\ infinite.isValidating /\ ~infinite.data.present
  /\ view.screen = "lists" /\ view.forms = regular.data
  /\ view.forms.present /\ Len(view.forms.items) > 0
  /\ ~view.isValidating /\ ~view.isLoading

\* What the dashboard would render now.
CurrentProps == Props(searchQuery, isSearching, useInfiniteScrolling, infinite, regular)

\* The commit on display shows Searching.
ShowsSearching == view.screen = "searching"

\* The display shows Searching, the flags of the committed term's fetch are
\* clear, and nothing is left to render: no later commit will leave Searching.
RestsInSearching ==
  /\ dashMounted
  /\ ShowsSearching
  /\ view = CurrentProps
  /\ ~view.isLoading /\ ~view.isValidating

\* C15: once a term is committed the dashboard renders Searching; it leaves
\* Searching only in a commit in which the fetch for the committed term has
\* resolved (isValidating and isLoading false), and then, unless the fetch
\* failed, for Ready or Empty; and it does not rest in Searching once the
\* flags are clear.
C15_SearchingUntilResolved ==
  /\ []((dashMounted /\ isSearching) => CurrentProps.screen = "searching")
  /\ [][(ShowsSearching /\ view'.screen \notin {"searching", "none"}) =>
          /\ ~view'.isValidating /\ ~view'.isLoading
          /\ view'.dataFor = view'.searchQuery
          /\ view'.searchQuery = searchQuery
          /\ ~view'.error =>
                \A i \in 1..NumLists : DisplayState(view', i) \in {"Ready", "Empty"}]_vars
  /\ [](~RestsInSearching)

\* C16: no display state is terminal; in particular, whenever the dashboard
\* is at rest with a term committed (nothing left to render, no search or
\* fetch pending), in Empty after a search without results too, the search
\* input is there for a new term.
C16_SearchInputAlwaysAvailable ==
  (/\ dashMounted
   /\ view = CurrentProps
   /\ Truthy(view.searchQuery)
   /\ ~view.isSearching /\ ~view.isLoading /\ ~view.isValidating)
    => SearchBoxShown

\* The items of arr a pattern fuzzy-matches: those containing the pattern's
\* characters in order, letter case aside.
IsSubsequence(p, str) ==
  \E at \in [1..Len(p) -> 1..Len(str)] :
     /\ \A k \in 1..Len(p) : str[at[k]] = p[k]
     /\ \A k \in 1..Len(p), m \in 1..Len(p) : k < m => at[k] < at[m]

Matches(term, formInfo) ==
  IsSubsequence(toLowerCase(term),
                toLowerCase(IF formInfo.hasDisplay THEN formInfo.display
                            ELSE formInfo.name))

Score(term, formInfo) ==
  fuzzy_match(term, IF formInfo.hasDisplay THEN formInfo.display
                    ELSE formInfo.name)

\* 1 + the number of matching items that go before item k: those of a higher
\* score, and those of the same score that come earlier in the result set.
RankOf(term, items, k) ==
  1 + Cardinality({m \in 1..Len(items) :
        /\ Matches(term, items[m])
        /\ \/ Score(term, items[m]) > Score(term, items[k])
           \/ Score(term, items[m]) = Score(term, items[k]) /\ m < k})

\* C17: without onSearch, an empty term exposes the result set unmodified; a
\* non-empty term over an empty or absent result set exposes the empty list;
\* otherwise the exposed list is exactly the items whose display (name when
\* display is absent) fuzzy-matches the term, by score descending, equal
\* scores in their original order.
C17_LocalFilter ==
  localMounted =>
    IF searchTerm = << >> THEN exposedForms = localForms
    ELSE IF ~localForms.present \/ Len(localForms.items) = 0
    THEN exposedForms = [present |-> TRUE, items |-> << >>]
    ELSE LET items == localForms.items
             matching == {k \in 1..Len(items) : Matches(searchTerm, items[k])}
         IN /\ exposedForms.present
            /\ Len(exposedForms.items) = Cardinality(matching)
            /\ \A k \in matching :
                  exposedForms.items[RankOf(searchTerm, items, k)] = items[k]

\* A term is committed over a result set in which a later item outscores an
\* earlier one that also matches.
C17_Witness ==
  /\ localMounted
  /\ searchTerm # << >>
  /\ localForms.present
  /\ Len(localForms.items) = 2
  /\ Len(exposedForms.items) = 2
  /\ exposedForms.items[1] = localForms.items[2]
  /\ localForms.items[2].hasDisplay

\* The rows list i has loaded: the ids of the completedForms it is given.
LoadedRows(p, i) ==
  LET forms == completedForms(p.forms, i)
  IN [k \in 1..Len(forms.items) |-> forms.items[k].uuid]

\* C18: a failed load-more with rows already loaded (error set, completedForms
\* non-empty, not searching) leaves every loaded row displayed: a list that
\* is given the error displays all its completedForms, and the commit in
\* which the error arrives with the forms as they were changes no list's
\* displayed rows.
C18_LoadMoreFailureKeepsRows ==
  /\ [](\A i \in Lists :
          (/\ listMounted[i]
           /\ view.error
           /\ ~view.isSearching
           /\ Len(completedForms(view.forms, i).items) > 0)
          => /\ DisplayState(view, i) = "Ready"
             /\ tableRows(view, i) = LoadedRows(view, i))
  /\ [][\A i \in Lists :
          (/\ loadFailed
           /\ ~view.error /\ view'.error
           /\ ~view'.isSearching
           /\ view'.forms = view.forms
           /\ Len(tableRows(view, i)) > 0)
          => tableRows(view', i) = tableRows(view, i)]_vars

\* A load-more request has failed, the commit that shows the failure is done
\* and the list still displays its rows.
C18_Witness ==
  /\ loadFailed
  /\ view.error
  /\ ~view.isValidating
  /\ ~view.isSearching
  /\ listMounted[1]
  /\ Len(tableRows(view, 1)) > 0

\* C19: while infinite scrolling is disabled no observer is created and
\* loadMore() is never invoked, a committed non-empty term whose incremental
\* source reports hasMore = TRUE included.
C19_NoLoadingWithoutScrolling ==
  /\ [](~useInfiniteScrolling =>
          /\ \A o \in ObserverIds : observers[o] = FreeObserver
          /\ \A i \in Lists : observerRef[i] = 0 /\ loadMoreRef[i] = 0)
  /\ [][~useInfiniteScrolling => called' = 0 /\ ~loadInFlight']_vars

\* Infinite scrolling is disabled and the list displays the rows found for a
\* committed non-empty term, with more of them to load.
C19_Witness ==
  /\ ~useInfiniteScrolling
  /\ Truthy(view.searchQuery)
  /\ view.dataFor = view.searchQuery
  /\ view.loadMore
  /\ view.hasMore
  /\ ~view.isValidating
  /\ listMounted[1]
  /\ Len(tableRows(view, 1)) > 0

====
